---- MODULE Spec2Model ----
(***************************************************************************)
(* Verification model of the shopping-assistant repository:                *)
(*   - the conversational retail agent (processRetailConversation), its    *)
(*     route POST /api/assistant/retail and the client's handleSubmit;     *)
(*   - the free-text route POST /api/assistant with its clarifying cap;    *)
(*   - the semantic reasoning pipeline reason(messages).                   *)
(* Strings are abstracted to the features the code tests on them; the     *)
(* model calls (Gemini, embeddings, vector store) are nondeterministic     *)
(* inputs of the actions.  Confidence scores are kept in tenths.           *)
(***************************************************************************)
EXTENDS Integers, Sequences, FiniteSets, TLC

VARIABLES
    \* ---- retail agent conversation (app/page.tsx + retail route) ----
    agentImpl,          \* which processRetailConversation the route imports
    messages,           \* page.tsx: ChatMessage[] held by the client
    conversationState,  \* page.tsx: RetailConversationState held by the client
    inflight,           \* response of the retail route travelling to the client
    lastCall,           \* observation of the agent call that built inflight

    \* ---- free-text assistant (POST /api/assistant + its client) ----
    chat,               \* client: ChatMessage[] of the free-text conversation
    intentCache,        \* lib/gemini: module-level Map of parsed intents
    posts,              \* number of requests served so far
    lastPost,           \* observation of the last POST /api/assistant

    \* ---- semantic reasoning pipeline (reason(messages)) ----
    purposeAttributeMap, \* rag/purpose_attribute_map.json, loaded at import
    rMessages,          \* the ChatMessage[] handed to reason()
    productCache,       \* reasoning.ts: module-level product cache
    lastReason,         \* observation of the last call of reason()
    lastCompare,        \* observation of the last call of compare()
    clock,              \* Date.now(), in milliseconds since the first call
    normalized          \* the calls of normalizeProduct made so far

retailVars == <<agentImpl, messages, conversationState, inflight, lastCall>>
routeVars  == <<chat, intentCache, posts, lastPost>>
reasonVars == <<purposeAttributeMap, rMessages, productCache, lastReason,
                lastCompare, clock, normalized>>

vars == <<agentImpl, messages, conversationState, inflight, lastCall,
          chat, intentCache, posts, lastPost,
          purposeAttributeMap, rMessages, productCache, lastReason,
          lastCompare, clock, normalized>>

\* ------------------------------------------------------------------------
\* Bounds
\* ------------------------------------------------------------------------
MaxTurns == 3          \* user turns per retail conversation
MaxPosts == 3          \* requests served by POST /api/assistant
MaxReasonTurns == 3    \* user turns of a conversation through reason()
MaxClock == 2          \* milliseconds that pass between calls of normalizeProduct
MaxNormalizeCalls == 3 \* calls of normalizeProduct in one behaviour

\* ------------------------------------------------------------------------
\* Value abstractions
\* ------------------------------------------------------------------------
Null   == "<null>"      \* JS null
Absent == "<absent>"    \* JS undefined / property missing

Min(a, b) == IF a < b THEN a ELSE b
Max(a, b) == IF a > b THEN a ELSE b

\* JS truthiness of a string-or-null field (no reachable field is "")
Truthy(v) == v # Null /\ v # Absent /\ v # ""

\* ========================================================================
\* Conversational retail agent
\* ========================================================================

EmptyState ==
    [intent |-> Null, primary_use |-> Null, experience_level |-> Null,
     budget_range |-> Null, constraints_locked |-> FALSE]

\* variant: the second term is given when exactly one of primary_use and
\* experience_level is set
calculateConfidenceExclusive(state) ==
    LET c == (IF Truthy(state.intent) THEN 3 ELSE 0)
           + (IF Truthy(state.primary_use) # Truthy(state.experience_level)
              THEN 3 ELSE 0)
           + (IF Truthy(state.budget_range) THEN 4 ELSE 0)
    IN  Max(0, Min(10, c))

\* calculateConfidence, in tenths (0.3 -> 3, 0.4 -> 4, clamp to [0, 10])
calculateConfidence(state) ==
    LET c == (IF Truthy(state.intent) THEN 3 ELSE 0)
           + (IF Truthy(state.primary_use) \/ Truthy(state.experience_level)
              THEN 3 ELSE 0)
           + (IF Truthy(state.budget_range) THEN 4 ELSE 0)
    IN  Max(0, Min(10, c))

MAX_CLARIFYING_TURNS == 2      \* retail agent cap
CONFIDENCE_THRESHOLD == 6      \* 0.6
HIGH_CONFIDENCE      == 8      \* 0.8

\* One history entry counts as a clarifying question
IsClarifyingMsg(msg) ==
    /\ msg.role = "assistant"
    /\ LET isQuestionType == msg.questionType  \* ui?.retailUI?.type === "question"
           hasNoProducts  == ~msg.hasProducts
       IN  \/ isQuestionType /\ hasNoProducts
           \/ ~isQuestionType /\ hasNoProducts
              /\ msg.asksOnly   \* isQuestion && !hasProducts (content regexes)

countClarifyingQuestions(history) ==
    Cardinality({i \in 1..Len(history) : IsClarifyingMsg(history[i])})

\* The extractor's JSON, as far as the agent reads it
UpdateVals == {Absent, "null", "v"}
UiTypes    == {"question", "recommendation", Absent}
TextClasses == {"asks", "other"}

ExtractorFailure == [ok |-> FALSE]

ExtractorOutputs ==
    [ok : {TRUE},
     updateIntent : UpdateVals,
     updatePrimaryUse : {Absent, "v"},
     updateExperienceLevel : {Absent, "v"},
     updateBudgetRange : {Absent, "v"},
     question : BOOLEAN,
     uiType : UiTypes,
     shouldFetchProducts : BOOLEAN,
     text : TextClasses]

UserMessages == [budgetPattern : BOOLEAN]

\* variant: the field is assigned from the update unconditionally
ApplyUpdateOverwrite(old, upd) ==
    IF Truthy(upd) /\ upd # "null" THEN upd ELSE Null

\* state merge: a field is overwritten only by a truthy value other than "null"
ApplyUpdate(old, upd) == IF Truthy(upd) /\ upd # "null" THEN upd ELSE old

MergeUpdates(cur, parsed) ==
    [cur EXCEPT !.intent           = ApplyUpdate(@, parsed.updateIntent),
                !.primary_use      = ApplyUpdate(@, parsed.updatePrimaryUse),
                !.experience_level = ApplyUpdate(@, parsed.updateExperienceLevel),
                !.budget_range     = ApplyUpdate(@, parsed.updateBudgetRange)]

\* regex fallback over the raw utterance, only when budget is still unset
BudgetFallback(st, userMessage) ==
    IF ~Truthy(st.budget_range) /\ userMessage.budgetPattern
    THEN [st EXCEPT !.budget_range = "rx"]
    ELSE st

\* Outcomes of the product search (generateEmbedding + searchRetailProducts)
SearchOutcomes == {"throws", "empty", "some"}

\* catch block: the fallback response of processRetailConversation
FallbackResponse(currentState, withConfidence) ==
    [state               |-> currentState,
     uiType              |-> "question",
     hasProducts         |-> FALSE,
     shouldFetchProducts |-> FALSE,
     confidence          |-> IF withConfidence
                             THEN calculateConfidence(currentState) ELSE Absent,
     content             |-> "asks",   \* "... Could you tell me a bit more ...?"
     questionAppended    |-> TRUE,
     searchAttempted     |-> FALSE]

\* message text class for the history heuristic: "asks" = the joined
\* messageParts match the question regex and not the product regex.
\* parsed.text is the class of the message as built from the extractor's
\* acknowledgment / question / recommendation; when the agent had to supply
\* its default recommendation sentence ("... here are some options ...")
\* the class is "other", which parsed.text ranges over as well.
MessageContent(parsed, locked) == parsed.text

\* variant: the confidence threshold alone forces the display
ShouldShowProductsNoCap(clarifyingCount, confidence) ==
    \/ confidence >= CONFIDENCE_THRESHOLD
    \/ confidence >= HIGH_CONFIDENCE

\* the cap / high-confidence override test of the agent
ShouldShowProducts(clarifyingCount, confidence) ==
    \/ clarifyingCount >= MAX_CLARIFYING_TURNS /\ confidence >= CONFIDENCE_THRESHOLD
    \/ confidence >= HIGH_CONFIDENCE

HasAllCriteria(st) ==
    /\ Truthy(st.intent)
    /\ Truthy(st.primary_use) \/ Truthy(st.experience_level)
    /\ Truthy(st.budget_range)

\* variant: the question is pushed whether or not constraints are locked
QuestionAppendedAlways(parsed, locked) == parsed.question

\* question is pushed onto messageParts
QuestionAppended(parsed, locked) == parsed.question /\ ~locked

\* processRetailConversation (current agent).  ext.ok is FALSE when every
\* model call errors / returns empty / unparseable text (parsedSet stays
\* false and lastError is thrown); otherwise ext is the parsed JSON.
processRetailConversation(userMessage, currentState, history, ext, search) ==
    IF ~ext.ok
    THEN FallbackResponse(currentState, TRUE)
    ELSE
    LET parsed     == ext
        merged     == BudgetFallback(MergeUpdates(currentState, parsed), userMessage)
        confidence == calculateConfidence(merged)
        clarifyingCount == countClarifyingQuestions(history)
        shouldShowProducts == ShouldShowProducts(clarifyingCount, confidence)
        allCriteria == HasAllCriteria(merged)
        locked1    == IF shouldShowProducts \/ allCriteria
                      THEN TRUE ELSE merged.constraints_locked
        fetch1     == IF shouldShowProducts \/ allCriteria
                      THEN TRUE ELSE parsed.shouldFetchProducts
        uiType1    == IF shouldShowProducts THEN "recommendation" ELSE parsed.uiType
        force1     == shouldShowProducts \/ allCriteria
        \* "constraints locked but shouldFetchProducts false" repair
        fetch2     == IF locked1 /\ ~fetch1 THEN TRUE ELSE fetch1
        force2     == IF locked1 /\ ~fetch1 THEN TRUE ELSE force1
        newState   == [merged EXCEPT !.constraints_locked = locked1]
        shouldFetch ==
            locked1 /\ ( fetch2 \/ force2
                         \/ (clarifyingCount >= MAX_CLARIFYING_TURNS
                             /\ confidence >= CONFIDENCE_THRESHOLD)
                         \/ confidence >= HIGH_CONFIDENCE )
        nProducts  == IF shouldFetch /\ search = "some" THEN 1 ELSE 0
        hasProductsToShow == nProducts > 0
        shouldShowRecommendation ==
            hasProductsToShow
            \/ (locked1 /\ (force2 \/ confidence >= HIGH_CONFIDENCE))
    IN  [state               |-> newState,
         uiType              |-> IF shouldShowRecommendation THEN "recommendation"
                                 ELSE IF uiType1 = Absent THEN "question"
                                 ELSE uiType1,
         hasProducts         |-> locked1 /\ nProducts > 0,
         shouldFetchProducts |-> fetch2,
         confidence          |-> confidence,
         content             |-> MessageContent(parsed, locked1),
         questionAppended    |-> QuestionAppended(parsed, locked1),
         searchAttempted     |-> shouldFetch]

\* processRetailConversation as in lib/retailAgent.ts (single model call,
\* no regex fallback, no cap, no confidence)
processRetailConversationLib(userMessage, currentState, history, ext, search) ==
    IF ~ext.ok
    THEN FallbackResponse(currentState, FALSE)
    ELSE
    LET parsed   == ext
        merged   == MergeUpdates(currentState, parsed)
        locked   == IF HasAllCriteria(merged) /\ ~merged.constraints_locked
                    THEN TRUE ELSE merged.constraints_locked
        newState == [merged EXCEPT !.constraints_locked = locked]
        doFetch  == locked /\ parsed.shouldFetchProducts
        nProducts == IF doFetch /\ search = "some" THEN 1 ELSE 0
    IN  [state               |-> newState,
         uiType              |-> IF parsed.uiType = Absent THEN "question"
                                 ELSE parsed.uiType,
         hasProducts         |-> nProducts > 0,
         shouldFetchProducts |-> parsed.shouldFetchProducts,
         confidence          |-> Absent,
         content             |-> parsed.text,
         questionAppended    |-> QuestionAppended(parsed, locked),
         searchAttempted     |-> doFetch]

\* ------------------------------------------------------------------------
\* POST /api/assistant/retail
\* ------------------------------------------------------------------------
Agent(impl, userMessage, currentState, history, ext, search) ==
    IF impl = "current"
    THEN processRetailConversation(userMessage, currentState, history, ext, search)
    ELSE processRetailConversationLib(userMessage, currentState, history, ext, search)

\* the search returns an outcome only on the turns where the agent calls it
SearchesOf(impl, userMessage, currentState, history, ext) ==
    IF Agent(impl, userMessage, currentState, history, ext, "empty").searchAttempted
    THEN SearchOutcomes ELSE {"empty"}

\* isRetailStoreInitialized() returned false
UninitializedResponse ==
    [ok |-> TRUE, content |-> "other",  \* "The product catalog hasn't been set up yet..."
     state |-> EmptyState, uiType |-> "recovery", hasProducts |-> FALSE]

\* catch block of the route
RouteErrorResponse ==
    [ok |-> TRUE, content |-> "asks",   \* "... Could you try rephrasing that?"
     state |-> EmptyState, uiType |-> "recovery", hasProducts |-> FALSE]

RetailResponse(response) ==
    [ok |-> TRUE, content |-> response.content, state |-> response.state,
     uiType |-> response.uiType, hasProducts |-> response.hasProducts]

\* ------------------------------------------------------------------------
\* app/page.tsx handleSubmit: one user turn of the retail conversation
\* ------------------------------------------------------------------------
UserMsg == [role |-> "user", questionType |-> FALSE, hasProducts |-> FALSE,
            asksOnly |-> FALSE]

\* Abstraction of ChatMessage.content: the outcome of the two content
\* regexes of countClarifyingQuestions (question-like and not product-like),
\* kept for the messages on which the code evaluates them (no question
\* type, no products) and FALSE elsewhere.
AsksOnly(data) ==
    data.uiType # "question" /\ ~data.hasProducts /\ data.content = "asks"

NoCall == [called |-> FALSE]

\* the extractor answered without a usable updateBudgetRange
BudgetOmitted(ext) ==
    ext.ok /\ ~(Truthy(ext.updateBudgetRange) /\ ext.updateBudgetRange # "null")
NoResponse == [ok |-> FALSE, pending |-> FALSE]
NetworkError == [ok |-> FALSE, pending |-> TRUE]

Idle == inflight = NoResponse

\* the request reaches the route, the store is initialized, the agent runs
handleSubmit ==
    /\ Idle
    /\ Len(messages) < 2 * MaxTurns
    /\ \E userMessage \in UserMessages,
          ext \in ExtractorOutputs \cup {ExtractorFailure} :
        \E search \in SearchesOf(agentImpl, userMessage, conversationState,
                                 messages, ext) :
        LET response == Agent(agentImpl, userMessage, conversationState,
                              messages, ext, search)
        IN  /\ inflight' = RetailResponse(response)
            /\ lastCall' = [called |-> TRUE,
                            extractorOk |-> ext.ok,
                            userMessage |-> userMessage,
                            budgetOmitted |-> BudgetOmitted(ext),
                            currentState |-> conversationState,
                            clarifyingCount |-> countClarifyingQuestions(messages),
                            response |-> response]
    /\ messages' = Append(messages, UserMsg)
    /\ UNCHANGED <<agentImpl, conversationState, routeVars, reasonVars>>

\* the request reaches the route, the store is not initialized
handleSubmitUninitialized ==
    /\ Idle
    /\ Len(messages) < 2 * MaxTurns
    /\ inflight' = UninitializedResponse
    /\ lastCall' = NoCall
    /\ messages' = Append(messages, UserMsg)
    /\ UNCHANGED <<agentImpl, conversationState, routeVars, reasonVars>>

\* the route handler throws (request.json(), isRetailStoreInitialized())
handleSubmitRouteError ==
    /\ Idle
    /\ Len(messages) < 2 * MaxTurns
    /\ inflight' = RouteErrorResponse
    /\ lastCall' = NoCall
    /\ messages' = Append(messages, UserMsg)
    /\ UNCHANGED <<agentImpl, conversationState, routeVars, reasonVars>>

\* fetch() itself rejects
handleSubmitNetworkError ==
    /\ Idle
    /\ Len(messages) < 2 * MaxTurns
    /\ inflight' = NetworkError
    /\ lastCall' = NoCall
    /\ messages' = Append(messages, UserMsg)
    /\ UNCHANGED <<agentImpl, conversationState, routeVars, reasonVars>>

\* continuation of handleSubmit after the await: the client stores the
\* returned state and appends the assistant message
receiveResponse ==
    /\ ~Idle
    /\ IF inflight.ok
       THEN /\ conversationState' = inflight.state
            /\ messages' = Append(messages,
                 [role |-> "assistant",
                  questionType |-> (inflight.uiType = "question"),
                  hasProducts |-> inflight.hasProducts,
                  asksOnly |-> AsksOnly(inflight)])
       ELSE /\ messages' = Append(messages,
                 [role |-> "assistant", questionType |-> FALSE,
                  hasProducts |-> FALSE,
                  asksOnly |-> FALSE])   \* "Oops! Something went wrong. ..."
            /\ UNCHANGED conversationState
    /\ inflight' = NoResponse
    /\ lastCall' = NoCall
    /\ UNCHANGED <<agentImpl, routeVars, reasonVars>>

RetailStart ==
    /\ agentImpl \in {"current", "lib"}
    /\ messages = <<>>
    /\ conversationState = EmptyState
    /\ inflight = NoResponse
    /\ lastCall = NoCall

RetailStep ==
    \/ handleSubmit
    \/ handleSubmitUninitialized
    \/ handleSubmitRouteError
    \/ handleSubmitNetworkError
    \/ receiveResponse

\* ------------------------------------------------------------------------
\* Properties of the retail agent (checked under SpecRetail)
\* ------------------------------------------------------------------------
StateFields == {"intent", "primary_use", "experience_level", "budget_range"}

AgentCalled == lastCall.called

\* C3: on a turn whose extractor call succeeded, once
\* countClarifyingQuestions(history) >= 2 the turn force-proceeds whatever
\* the confidence: the returned state is locked, a product search is
\* attempted and ui.type is not "question".
C3_ForceProceedAtCap ==
    (AgentCalled /\ agentImpl = "current" /\ lastCall.extractorOk
        /\ lastCall.clarifyingCount >= MAX_CLARIFYING_TURNS)
    => /\ lastCall.response.state.constraints_locked
       /\ lastCall.response.searchAttempted
       /\ lastCall.response.uiType # "question"

\* C5: when every extractor call fails the agent does not answer with a
\* question but proceeds directly to a product search.
C5_ExtractorFailureSearches ==
    (AgentCalled /\ ~lastCall.extractorOk)
    => /\ lastCall.response.searchAttempted
       /\ lastCall.response.uiType # "question"

\* C7: a field that is non-null in currentState is non-null in the returned
\* state, and constraints_locked stays true once true, whether the
\* extractor succeeded or failed.
C7_NeverRegresses ==
    AgentCalled
    => /\ \A f \in StateFields :
            lastCall.currentState[f] # Null => lastCall.response.state[f] # Null
       /\ lastCall.currentState.constraints_locked
            => lastCall.response.state.constraints_locked

C7_Witness ==
    /\ AgentCalled
    /\ ~lastCall.extractorOk
    /\ lastCall.currentState.intent # Null
    /\ lastCall.currentState.budget_range # Null
    /\ lastCall.currentState.constraints_locked

\* C8 as stated: an unlocked state becomes locked only when intent,
\* primary_use or experience_level, and budget_range are all set.
C8_LockOnlyWithAllThree ==
    (AgentCalled /\ ~lastCall.currentState.constraints_locked
        /\ lastCall.response.state.constraints_locked)
    => HasAllCriteria(lastCall.response.state)

\* C8 as amended: an unlocked state becomes locked only when all three are
\* set, or when at least two clarifying questions were already asked and
\* the merged state's confidence is at least 0.6.
C8_LockOnlyWithAllThreeOrCap ==
    (AgentCalled /\ ~lastCall.currentState.constraints_locked
        /\ lastCall.response.state.constraints_locked)
    => \/ HasAllCriteria(lastCall.response.state)
       \/ /\ lastCall.clarifyingCount >= MAX_CLARIFYING_TURNS
          /\ calculateConfidence(lastCall.response.state) >= CONFIDENCE_THRESHOLD

C8_Witness ==
    /\ AgentCalled
    /\ ~lastCall.currentState.constraints_locked
    /\ lastCall.response.state.constraints_locked
    /\ ~HasAllCriteria(lastCall.response.state)

\* C9: when the merged state of a turn has confidence >= 0.8 the agent
\* locks, attempts a search in the same turn, answers with
\* shouldFetchProducts = true and appends no question.
C9_HighConfidenceOverride ==
    (AgentCalled /\ agentImpl = "current" /\ lastCall.extractorOk
        /\ lastCall.response.confidence >= HIGH_CONFIDENCE)
    => /\ lastCall.response.state.constraints_locked
       /\ lastCall.response.searchAttempted
       /\ lastCall.response.shouldFetchProducts
       /\ ~lastCall.response.questionAppended

C9_Witness ==
    /\ AgentCalled /\ agentImpl = "current" /\ lastCall.extractorOk
    /\ lastCall.response.confidence >= HIGH_CONFIDENCE
    /\ lastCall.clarifyingCount = 0
    /\ ~lastCall.currentState.constraints_locked
    /\ lastCall.response.searchAttempted

\* C26: calculateConfidence is monotone: setting one more field of the
\* state never lowers the score; the score is 0.3 for intent plus 0.3 for
\* primary_use or experience_level plus 0.4 for budget_range, and lies
\* in [0, 1].
C26_ConfidenceIsMonotone ==
    AgentCalled
    => LET state == lastCall.response.state
           \* the announced score, in tenths
           announced ==
               (IF state.intent # Null THEN 3 ELSE 0)
               + (IF state.primary_use # Null \/ state.experience_level # Null
                  THEN 3 ELSE 0)
               + (IF state.budget_range # Null THEN 4 ELSE 0)
       IN  /\ calculateConfidence(state) = announced
           /\ calculateConfidence(state) \in 0..10
           /\ \A f \in StateFields :
                state[f] = Null
                => calculateConfidence([state EXCEPT ![f] = "v"])
                     >= calculateConfidence(state)

\* primary_use is known and experience_level is not: setting it leaves the
\* score where it is
C26_Witness ==
    /\ AgentCalled
    /\ lastCall.response.state.primary_use # Null
    /\ lastCall.response.state.experience_level = Null
    /\ calculateConfidence(lastCall.response.state) = 6

\* C30: over a conversation through the retail route, with the client
\* storing each returned state and sending it back, a state field known
\* after a turn is still known after every later turn, turns answered by
\* the uninitialised-store or error response included.
C30_ClientStateNeverRegresses ==
    [][\A f \in StateFields :
          conversationState[f] # Null => conversationState'[f] # Null]_vars

\* C11: when the utterance holds an explicit budget pattern and the
\* extractor fails or omits the budget, the state returned by
\* processRetailConversation has budget_range set.
C11_BudgetFallbackIndependent ==
    (AgentCalled /\ agentImpl = "current"
        /\ lastCall.userMessage.budgetPattern
        /\ (~lastCall.extractorOk \/ lastCall.budgetOmitted))
    => lastCall.response.state.budget_range # Null

\* C10: a single turn changes at most one of intent, primary_use,
\* experience_level and budget_range.
C10_AtMostOneFieldPerTurn ==
    AgentCalled
    => Cardinality({f \in StateFields :
            lastCall.currentState[f] # lastCall.response.state[f]}) <= 1

\* ========================================================================
\* Free-text assistant: lib/gemini parseUserIntent + POST /api/assistant
\* ========================================================================

ROUTE_MAX_CLARIFYING_TURNS == 2

NextActions == {"ASK_FOLLOWUP", "EDUCATE_THEN_SEARCH", "SEARCH_NOW"}

\* what the user types (the route only trims it)
UserTexts == {"u1"}

\* JSON answered by a Gemini model, as far as the route reads it.
\* educationSummary: Absent or the extractor's text; followupQuestion: a
\* question is present; confident: confidence >= 0.9 after clamping.
\* The answers are listed per nextAction with the fields its branch reads.
Intent(nextAction, educationSummary, followupQuestion, confident) ==
    [nextAction |-> nextAction, educationSummary |-> educationSummary,
     followupQuestion |-> followupQuestion, confident |-> confident]

RawIntents ==
    { Intent("ASK_FOLLOWUP", "extractor", TRUE, FALSE),
      Intent("ASK_FOLLOWUP", Absent, TRUE, FALSE),
      Intent("ASK_FOLLOWUP", Absent, FALSE, FALSE),
      Intent("EDUCATE_THEN_SEARCH", "extractor", FALSE, FALSE),
      Intent("EDUCATE_THEN_SEARCH", Absent, FALSE, FALSE),
      Intent("SEARCH_NOW", "extractor", FALSE, FALSE),
      Intent("SEARCH_NOW", "extractor", FALSE, TRUE),
      Intent("OTHER", Absent, FALSE, TRUE) }

\* every model of the try list errors / answers empty or unparseable text
GeminiFailure == [nextAction |-> "<failure>"]

\* validation of nextAction inside parseUserIntent
ValidateNextAction(a) == IF a \in NextActions THEN a ELSE "SEARCH_NOW"

\* the fallback intent built when all models failed (confidence 0.5)
FallbackIntent == Intent("SEARCH_NOW", Absent, FALSE, FALSE)

\* ChatMessage.content is kept as the sequence of the parts the route joins;
\* slice(0, 50) of it is inside its first part (the free texts of the
\* extractor and the default acknowledgment are longer than 50 characters,
\* every fixed sentence of the route differs within its first 50).
Slice50(content) == IF content = <<>> THEN <<>> ELSE <<Head(content)>>

generateCacheKey(message, history) ==
    <<message, [i \in 1..Len(history) |->
                    <<history[i].role, Slice50(history[i].content)>>]>>

CacheHit(cache, message, history) ==
    \E e \in cache : e.key = generateCacheKey(message, history)

getFromCache(cache, message, history) ==
    (CHOOSE e \in cache : e.key = generateCacheKey(message, history)).intent

\* parseUserIntent(message, history): gemini is what the model call would
\* answer; it is not consulted on a cache hit.
parseUserIntent(cache, message, history, gemini) ==
    IF CacheHit(cache, message, history)
    THEN [intent |-> getFromCache(cache, message, history), modelUsed |-> "cache"]
    ELSE IF gemini = GeminiFailure
    THEN [intent |-> FallbackIntent, modelUsed |-> "fallback"]
    ELSE [intent |-> [gemini EXCEPT !.nextAction = ValidateNextAction(@)],
          modelUsed |-> "gemini"]

\* the model answers that can be told apart on this request
GeminiAnswers(cache, message, history) ==
    IF CacheHit(cache, message, history)
    THEN {GeminiFailure}
    ELSE RawIntents \cup {GeminiFailure}

countClarifyingTurns(history) ==
    Cardinality({i \in 1..Len(history) :
        /\ history[i].role = "assistant"
        /\ history[i].mode = "education"
        /\ ~history[i].hasProducts})

\* variant: the limit is tested with > instead of >=
CapReachedStrict(clarifyingTurnCount) ==
    clarifyingTurnCount > ROUTE_MAX_CLARIFYING_TURNS

\* the limit test of step 1.5
CapReached(clarifyingTurnCount) ==
    clarifyingTurnCount >= ROUTE_MAX_CLARIFYING_TURNS

\* step 1.5: the intent object after the in-place override
EnforceClarifyingLimit(intent, clarifyingTurnCount) ==
    IF intent.nextAction = "ASK_FOLLOWUP" /\ CapReached(clarifyingTurnCount)
    THEN [intent EXCEPT !.nextAction = "EDUCATE_THEN_SEARCH",
                        !.educationSummary =
                            IF @ = Absent THEN "default" ELSE @]
    ELSE intent

\* performProductSearch: searchProducts throws / returns [] / returns some
RouteSearchOutcomes == {"error", "empty", "some"}

SummaryPart(intent) ==
    IF intent.educationSummary = Absent THEN <<>>
    ELSE <<IF intent.educationSummary = "default"
           THEN "defaultSummary" ELSE "educationSummary">>

\* step 2 and 3: the response built from the (overridden) intent
BuildResponse(intent, search) ==
    CASE intent.nextAction = "ASK_FOLLOWUP" ->
           LET parts == SummaryPart(intent)
                        \o (IF intent.followupQuestion
                            THEN <<"followupQuestion">> ELSE <<>>)
           IN  [content |-> IF Len(parts) > 0 THEN parts ELSE <<"askDefault">>,
                mode |-> "education", hasProducts |-> FALSE, searched |-> FALSE]
      [] intent.nextAction = "EDUCATE_THEN_SEARCH" ->
           [content |-> SummaryPart(intent)
                        \o <<CASE search = "error" -> "troubleEducate"
                               [] search = "empty" -> "noneEducate"
                               [] OTHER -> "basedOnThis">>,
            mode |-> IF search = "some" THEN "shopping" ELSE "education",
            hasProducts |-> search = "some", searched |-> TRUE]
      [] OTHER ->
           [content |-> CASE search = "error" -> <<"troubleSearch">>
                          [] search = "empty" -> <<"noneSearch">>
                          [] OTHER ->
                               IF intent.educationSummary # Absent
                                  /\ ~intent.confident
                               THEN SummaryPart(intent) \o <<"assistantMessage">>
                               ELSE <<"assistantMessage">>,
            mode |-> "shopping", hasProducts |-> search = "some",
            searched |-> TRUE]

RouteSearchesOf(intent) ==
    IF intent.nextAction = "ASK_FOLLOWUP" THEN {"empty"} ELSE RouteSearchOutcomes

\* responses that come from the ASK_FOLLOWUP branch: a question, no search
QuestionOnlyContents ==
    {<<"educationSummary", "followupQuestion">>, <<"educationSummary">>,
     <<"followupQuestion">>, <<"askDefault">>}

UserChatMessage(message) ==
    [role |-> "user", content |-> <<message>>, mode |-> Absent,
     hasProducts |-> FALSE]

\* the client's assistantMessage: {role, content, products, ui} of the response
AssistantChatMessage(data) ==
    [role |-> "assistant", content |-> data.content, mode |-> data.mode,
     hasProducts |-> data.hasProducts]

NoPost == [parsed |-> FALSE]

\* the Map after parseUserIntent and step 1.5: setCache stores the very
\* object the route then mutates, and a hit hands out the stored object
CacheAfter(cache, message, history, result, intent) ==
    IF result.modelUsed = "fallback"
    THEN cache
    ELSE {e \in cache : e.key # generateCacheKey(message, history)}
         \cup {[key |-> generateCacheKey(message, history), intent |-> intent]}

\* handleSubmit of the free-text client with POST /api/assistant served:
\* the knowledge base is initialized and the handler runs to its end
postAssistant ==
    /\ posts < MaxPosts
    /\ \E message \in UserTexts :
       \E gemini \in GeminiAnswers(intentCache, message, chat) :
        LET history == chat
            result  == parseUserIntent(intentCache, message, history, gemini)
            clarifyingTurnCount == countClarifyingTurns(history)
            intent  == EnforceClarifyingLimit(result.intent, clarifyingTurnCount)
        IN  \E search \in RouteSearchesOf(intent) :
            LET data == BuildResponse(intent, search)
            IN  /\ intentCache' = CacheAfter(intentCache, message, history,
                                             result, intent)
                /\ chat' = chat \o <<UserChatMessage(message),
                                     AssistantChatMessage(data)>>
                /\ lastPost' = [parsed |-> TRUE,
                                modelUsed |-> result.modelUsed,
                                clarifyingTurnCount |-> clarifyingTurnCount,
                                parsedIntent |-> result.intent,
                                intent |-> intent,
                                searched |-> data.searched]
    /\ posts' = posts + 1
    /\ UNCHANGED <<retailVars, reasonVars>>

\* getStatus() reports an uninitialized knowledge base
postAssistantUninitialized ==
    /\ posts < MaxPosts
    /\ \E message \in UserTexts :
        chat' = chat \o <<UserChatMessage(message),
                          AssistantChatMessage(
                              [content |-> <<"notSynced">>, mode |-> "education",
                               hasProducts |-> FALSE])>>
    /\ lastPost' = NoPost
    /\ posts' = posts + 1
    /\ UNCHANGED <<intentCache, retailVars, reasonVars>>

\* the handler throws before parsing (request.json(), getStatus())
postAssistantError ==
    /\ posts < MaxPosts
    /\ \E message \in UserTexts :
        chat' = chat \o <<UserChatMessage(message),
                          AssistantChatMessage(
                              [content |-> <<"errorText">>, mode |-> "education",
                               hasProducts |-> FALSE])>>
    /\ lastPost' = NoPost
    /\ posts' = posts + 1
    /\ UNCHANGED <<intentCache, retailVars, reasonVars>>

\* fetch() rejects: the client appends its own error message, without ui
postAssistantNetworkError ==
    /\ posts < MaxPosts
    /\ \E message \in UserTexts :
        chat' = chat \o <<UserChatMessage(message),
                          AssistantChatMessage(
                              [content |-> <<"oops">>, mode |-> Absent,
                               hasProducts |-> FALSE])>>
    /\ lastPost' = NoPost
    /\ posts' = posts + 1
    /\ UNCHANGED <<intentCache, retailVars, reasonVars>>

\* the page is reloaded: useState starts again from an empty conversation
reloadPage ==
    /\ chat # <<>>
    /\ chat' = <<>>
    /\ lastPost' = NoPost
    /\ UNCHANGED <<intentCache, posts, retailVars, reasonVars>>

\* a minute passes without a request: every entry is older than CACHE_TTL
\* and the next lookup of its key deletes it
intentCacheExpires ==
    /\ intentCache # {}
    /\ intentCache' = {}
    /\ UNCHANGED <<chat, posts, lastPost, retailVars, reasonVars>>

RouteStart ==
    /\ chat = <<>>
    /\ intentCache = {}
    /\ posts = 0
    /\ lastPost = NoPost

RouteStep ==
    \/ postAssistant
    \/ postAssistantUninitialized
    \/ postAssistantError
    \/ postAssistantNetworkError
    \/ reloadPage
    \/ intentCacheExpires

\* ------------------------------------------------------------------------
\* Properties of the free-text route (checked under SpecAssistant)
\* ------------------------------------------------------------------------
QuestionOnlyTurns(history) ==
    {i \in 1..Len(history) :
        /\ history[i].role = "assistant"
        /\ history[i].content \in QuestionOnlyContents}

\* the request of the latest served post: its message and its history
LastPostMessage == Head(chat[Len(chat) - 1].content)

LastPostHistory == SubSeq(chat, 1, Len(chat) - 2)

\* C19: the intent cache is pure memoization: once parseUserIntent has
\* answered a request, a hit for the same message and history hands out
\* the very intent that call returned.
C19_CacheIsPureMemoization ==
    (lastPost.parsed /\ CacheHit(intentCache, LastPostMessage, LastPostHistory))
    => getFromCache(intentCache, LastPostMessage, LastPostHistory)
            = lastPost.parsedIntent

\* C2: when the request history holds at least 2 assistant turns with mode
\* "education" and no products and parseUserIntent returns ASK_FOLLOWUP, the
\* action becomes EDUCATE_THEN_SEARCH, a product search is performed and
\* educationSummary is the default acknowledgment when the extractor gave
\* none; and no conversation holds a third question-only response.
C2_CapDowngradesFollowup ==
    /\ (lastPost.parsed
        /\ lastPost.clarifyingTurnCount >= ROUTE_MAX_CLARIFYING_TURNS
        /\ lastPost.parsedIntent.nextAction = "ASK_FOLLOWUP")
       => /\ lastPost.intent.nextAction = "EDUCATE_THEN_SEARCH"
          /\ lastPost.searched
          /\ lastPost.intent.educationSummary =
                IF lastPost.parsedIntent.educationSummary = Absent
                THEN "default" ELSE lastPost.parsedIntent.educationSummary
    /\ Cardinality(QuestionOnlyTurns(chat)) <= ROUTE_MAX_CLARIFYING_TURNS

C2_Witness ==
    /\ lastPost.parsed
    /\ lastPost.clarifyingTurnCount >= ROUTE_MAX_CLARIFYING_TURNS
    /\ lastPost.parsedIntent.nextAction = "ASK_FOLLOWUP"
    /\ lastPost.parsedIntent.educationSummary = Absent
    /\ lastPost.intent.educationSummary = "default"
    /\ Cardinality(QuestionOnlyTurns(chat)) = ROUTE_MAX_CLARIFYING_TURNS

\* ========================================================================
\* Semantic reasoning pipeline: reason(messages)
\* ========================================================================

Purposes == {"travel_vlogging", "beginner_photography", "low_light_events"}

\* ChatMessage.content is kept as what parseUserIntent looks for in it:
\*   words - the keywords it contains (travel, vlog, beginner, night,
\*           camera, lens, compare);
\*   max   - the number after its first under/below/max/upto, in thousands;
\*   min   - the number after its first above/over/min/from, in thousands;
\*   ids   - the product ids it asks to compare.
\* NoNum stands for "no such number" (JS null / undefined).
NoNum == 0 - 1

UserUtterances ==
    { [words |-> {}, max |-> NoNum, min |-> NoNum, ids |-> <<>>],
      [words |-> {"travel", "vlog"}, max |-> NoNum, min |-> NoNum, ids |-> <<>>],
      [words |-> {"beginner"}, max |-> NoNum, min |-> NoNum, ids |-> <<>>],
      [words |-> {"night", "lens"}, max |-> NoNum, min |-> 50, ids |-> <<>>],
      [words |-> {"camera"}, max |-> 40, min |-> NoNum, ids |-> <<>>],
      [words |-> {}, max |-> 0, min |-> NoNum, ids |-> <<>>],
      [words |-> {"compare"}, max |-> NoNum, min |-> NoNum, ids |-> <<"p1", "p9">>],
      [words |-> {"compare"}, max |-> NoNum, min |-> NoNum, ids |-> <<"p1", "p2">>] }

RUserMessage(u) ==
    [role |-> "user", words |-> u.words, max |-> u.max, min |-> u.min,
     ids |-> u.ids, mode |-> Absent]

\* the number of the first message of the joined text that carries one
FirstWith(msgs, f) ==
    LET idx == {i \in 1..Len(msgs) : msgs[i][f] # NoNum}
    IN  IF idx = {} THEN NoNum
        ELSE msgs[CHOOSE i \in idx : \A j \in idx : i <= j][f]

\* budget: null, or {min, max, currency}
NullBudget == [isNull |-> TRUE, min |-> NoNum, max |-> NoNum]

\* comparison_request: null, or the list of ids
NullComparisonRequest == [isNull |-> TRUE, ids |-> <<>>]

\* variant: the comparison request is populated with the ids of the latest
\* message
reasoningParseUserIntentWithIds(msgs) ==
    LET allText == UNION {msgs[i].words : i \in 1..Len(msgs)}
        maxStr  == FirstWith(msgs, "max")
        minStr  == FirstWith(msgs, "min")
    IN  [purpose |->
            IF "travel" \in allText /\ "vlog" \in allText THEN "travel_vlogging"
            ELSE IF "beginner" \in allText THEN "beginner_photography"
            ELSE IF "night" \in allText THEN "low_light_events"
            ELSE Null,
         budget |->
            IF maxStr # NoNum \/ minStr # NoNum
            THEN [isNull |-> FALSE, min |-> minStr, max |-> maxStr]
            ELSE NullBudget,
         category |->
            IF "camera" \in allText THEN "Camera"
            ELSE IF "lens" \in allText THEN "Lens"
            ELSE Null,
         comparison_request |->
            IF "compare" \in allText
            THEN [isNull |-> FALSE, ids |-> msgs[Len(msgs)].ids]
            ELSE NullComparisonRequest]

\* parseUserIntent of reasoning.ts
reasoningParseUserIntent(msgs) ==
    LET allText == UNION {msgs[i].words : i \in 1..Len(msgs)}
        maxStr  == FirstWith(msgs, "max")
        minStr  == FirstWith(msgs, "min")
    IN  [purpose |->
            IF "travel" \in allText /\ "vlog" \in allText THEN "travel_vlogging"
            ELSE IF "beginner" \in allText THEN "beginner_photography"
            ELSE IF "night" \in allText THEN "low_light_events"
            ELSE Null,
         budget |->
            IF maxStr # NoNum \/ minStr # NoNum
            THEN [isNull |-> FALSE, min |-> minStr, max |-> maxStr]
            ELSE NullBudget,
         category |->
            IF "camera" \in allText THEN "Camera"
            ELSE IF "lens" \in allText THEN "Lens"
            ELSE Null,
         comparison_request |->
            IF "compare" \in allText
            THEN [isNull |-> FALSE, ids |-> <<>>]  \* "populated when we have product IDs"
            ELSE NullComparisonRequest]

\* the intent of the catch block
NullIntent ==
    [purpose |-> Null, budget |-> NullBudget, category |-> Null,
     comparison_request |-> NullComparisonRequest]

\* JS truthiness of a number-or-null
TruthyNum(n) == n # NoNum /\ n # 0

\* rag/purpose_attribute_map.json, per purpose: the kinds of its
\* recommended_clarifying_questions ("budget": the text contains "budget")
\* and attribute_weights * 10
AttributeWeights ==
    [video_resolution |-> 2, sensor_size |-> 1, low_light_performance |-> 3,
     weight_grams |-> 2]

PurposeMaps ==
    { [p \in Purposes |->
         [recommended_clarifying_questions |-> <<>>,
          attribute_weights |-> AttributeWeights]],
      [p \in Purposes |->
         [recommended_clarifying_questions |-> <<"budget">>,
          attribute_weights |-> AttributeWeights]],
      [p \in Purposes |->
         [recommended_clarifying_questions |->
            IF p = "travel_vlogging" THEN <<"other", "budget">>
            ELSE IF p = "beginner_photography" THEN <<"other">>
            ELSE <<"budget">>,
          attribute_weights |-> AttributeWeights]] }

NoQuestion == [kind |-> Null, options |-> 0]

PurposeQuestion == [kind |-> "purpose", options |-> 4]

\* decideNextQuestion: NoQuestion (null) or the question to ask
decideNextQuestion(map, intent) ==
    IF intent.purpose = Null
    THEN PurposeQuestion
    ELSE
    LET questions == map[intent.purpose].recommended_clarifying_questions
        hasBudgetQuestion == \E i \in 1..Len(questions) : questions[i] = "budget"
        nonBudgetQuestions == SelectSeq(questions, LAMBDA q : q # "budget")
        noBudget == \/ intent.budget.isNull
                    \/ ~TruthyNum(intent.budget.min) /\ ~TruthyNum(intent.budget.max)
    IN  IF noBudget /\ hasBudgetQuestion
        THEN [kind |-> "budget", options |-> 4]
        ELSE IF Len(nonBudgetQuestions) > 0
        THEN [kind |-> nonBudgetQuestions[1], options |-> 0]
        ELSE NoQuestion

\* ------------------------------------------------------------------------
\* Catalog records and normalizeProduct
\* ------------------------------------------------------------------------
\* ProductRecord: text is the set of attribute phrases found in description,
\* tags and embedding text; weight is the number in front of g/gram/kg (NoNum
\* when there is none); price is in thousands.
P1 == [id |-> "p1", productType |-> "Camera", price |-> 15,
       text |-> {"4k"}, weight |-> 300]
P2 == [id |-> "p2", productType |-> "Camera", price |-> 60,
       text |-> {"night", "full frame"}, weight |-> NoNum]
P3 == [id |-> "p3", productType |-> "Lens", price |-> 0,
       text |-> {}, weight |-> NoNum]
P4 == [id |-> "p4", productType |-> "Camera", price |-> 30,
       text |-> {"1080p", "aps-c"}, weight |-> 2]

P5 == [id |-> "p5", productType |-> "Camera", price |-> 15,
       text |-> {"4k", "aps-c"}, weight |-> 300]
P6 == [id |-> "p6", productType |-> "Lens", price |-> 40,
       text |-> {"1080p", "full frame", "night"}, weight |-> 450]

P7 == [id |-> "p7", productType |-> "Camera", price |-> 0,
       text |-> {}, weight |-> NoNum]

\* the records compare() is applied to
CompareRecords == {P1, P2, P3, P4, P5, P6}

\* rows of the products table in the order of vector distance to the query
Rankings == {<<>>, <<P7>>, <<P1, P2>>, <<P2, P4, P1, P5, P3>>}

NullPrice == NoNum

\* variant: proof is returned as collected, without the "title" fallback
normalizeProductBareProof(record) ==
    LET price == record.price
        video_resolution ==
            IF "4k" \in record.text THEN "4K"
            ELSE IF "1080p" \in record.text THEN "1080p" ELSE "unknown"
        sensor_size ==
            IF "full frame" \in record.text THEN "full_frame"
            ELSE IF "aps-c" \in record.text THEN "aps_c" ELSE "unknown"
        low_light_performance ==
            IF "night" \in record.text THEN "high" ELSE "unknown"
        weight_grams ==
            IF record.weight # NoNum
            THEN (IF record.weight < 1000 THEN record.weight
                  ELSE record.weight * 1000)
            ELSE NoNum                                 \* "unknown"
        proof ==
            (IF video_resolution # "unknown" THEN <<"description">> ELSE <<>>)
            \o (IF sensor_size # "unknown" THEN <<"body_html">> ELSE <<>>)
            \o (IF low_light_performance # "unknown" THEN <<"description">> ELSE <<>>)
            \o (IF weight_grams # NoNum THEN <<"body_html">> ELSE <<>>)
    IN  [product_id |-> record.id,
         category |-> record.productType,
         price |-> IF TruthyNum(price) THEN price ELSE NullPrice,
         key_attributes |->
            [video_resolution |-> video_resolution,
             sensor_size |-> sensor_size,
             low_light_performance |-> low_light_performance,
             weight_grams |-> weight_grams],
         use_case_fit |->
            [travel_vlogging |->
                IF weight_grams # NoNum /\ weight_grams < 500 THEN "high"
                ELSE IF video_resolution = "4K" THEN "medium" ELSE "unknown",
             low_light_events |->
                IF low_light_performance = "high" \/ sensor_size = "full_frame"
                THEN "high" ELSE "unknown",
             beginner_photography |->
                IF TruthyNum(price) /\ price < 50 THEN "medium" ELSE "unknown"],
         proof |-> proof]

normalizeProduct(record) ==
    LET price == record.price
        video_resolution ==
            IF "4k" \in record.text THEN "4K"
            ELSE IF "1080p" \in record.text THEN "1080p" ELSE "unknown"
        sensor_size ==
            IF "full frame" \in record.text THEN "full_frame"
            ELSE IF "aps-c" \in record.text THEN "aps_c" ELSE "unknown"
        low_light_performance ==
            IF "night" \in record.text THEN "high" ELSE "unknown"
        weight_grams ==
            IF record.weight # NoNum
            THEN (IF record.weight < 1000 THEN record.weight
                  ELSE record.weight * 1000)
            ELSE NoNum                                 \* "unknown"
        proof ==
            (IF video_resolution # "unknown" THEN <<"description">> ELSE <<>>)
            \o (IF sensor_size # "unknown" THEN <<"body_html">> ELSE <<>>)
            \o (IF low_light_performance # "unknown" THEN <<"description">> ELSE <<>>)
            \o (IF weight_grams # NoNum THEN <<"body_html">> ELSE <<>>)
    IN  [product_id |-> record.id,
         category |-> record.productType,
         price |-> IF TruthyNum(price) THEN price ELSE NullPrice,
         key_attributes |->
            [video_resolution |-> video_resolution,
             sensor_size |-> sensor_size,
             low_light_performance |-> low_light_performance,
             weight_grams |-> weight_grams],
         use_case_fit |->
            [travel_vlogging |->
                IF weight_grams # NoNum /\ weight_grams < 500 THEN "high"
                ELSE IF video_resolution = "4K" THEN "medium" ELSE "unknown",
             low_light_events |->
                IF low_light_performance = "high" \/ sensor_size = "full_frame"
                THEN "high" ELSE "unknown",
             beginner_photography |->
                IF TruthyNum(price) /\ price < 50 THEN "medium" ELSE "unknown"],
         proof |-> IF Len(proof) > 0 THEN proof ELSE <<"title">>]

\* key_attributes[attr] && key_attributes[attr] !== "unknown"
KnownAttribute(profile, attr) ==
    IF attr = "weight_grams"
    THEN TruthyNum(profile.key_attributes[attr])
    ELSE profile.key_attributes[attr] # "unknown"

AttributeOrder ==
    <<"video_resolution", "sensor_size", "low_light_performance", "weight_grams">>

RECURSIVE WeightPoints(_, _, _)
WeightPoints(weights, profile, i) ==
    IF i > Len(AttributeOrder) THEN 0
    ELSE (IF KnownAttribute(profile, AttributeOrder[i])
          THEN weights[AttributeOrder[i]] ELSE 0)
         + WeightPoints(weights, profile, i + 1)

\* scoreProduct: the score (the reasons strings are not kept)
scoreProduct(map, intent, profile) ==
    LET fit == IF intent.purpose = Null THEN "unknown"
               ELSE profile.use_case_fit[intent.purpose]
    IN  (CASE fit = "high" -> 10 [] fit = "medium" -> 5 [] fit = "low" -> 1
           [] OTHER -> 0)
      + (IF intent.purpose # Null
         THEN WeightPoints(map[intent.purpose].attribute_weights, profile, 1)
         ELSE 0)
      + (IF ~intent.budget.isNull /\ profile.price # NullPrice
            /\ TruthyNum(intent.budget.max) /\ profile.price <= intent.budget.max
         THEN 5 ELSE 0)
      + (IF ~intent.budget.isNull /\ profile.price # NullPrice
            /\ TruthyNum(intent.budget.min) /\ profile.price >= intent.budget.min
         THEN 2 ELSE 0)
      + (IF intent.category # Null /\ profile.category = intent.category
         THEN 3 ELSE 0)

Reason(kind, detail) == [kind |-> kind, detail |-> detail]

\* variant: "Within budget" is pushed without looking at profile.price
scoreProductReasonsAnyPrice(map, intent, profile) ==
    LET fit == IF intent.purpose = Null THEN "unknown"
               ELSE profile.use_case_fit[intent.purpose]
        known == IF intent.purpose = Null THEN <<>>
                 ELSE SelectSeq(AttributeOrder,
                                LAMBDA attr : KnownAttribute(profile, attr))
    IN  (IF fit \in {"high", "medium", "low"}
         THEN <<Reason("fit", fit)>> ELSE <<>>)
        \o [i \in 1..Len(known) |-> Reason("has", known[i])]
        \o (IF ~intent.budget.isNull
               /\ TruthyNum(intent.budget.max) /\ profile.price <= intent.budget.max
            THEN <<Reason("budget", "")>> ELSE <<>>)
        \o (IF intent.category # Null /\ profile.category = intent.category
            THEN <<Reason("category", profile.category)>> ELSE <<>>)

\* scoreProduct: the reasons list, one entry per reasons.push, in order
scoreProductReasons(map, intent, profile) ==
    LET fit == IF intent.purpose = Null THEN "unknown"
               ELSE profile.use_case_fit[intent.purpose]
        known == IF intent.purpose = Null THEN <<>>
                 ELSE SelectSeq(AttributeOrder,
                                LAMBDA attr : KnownAttribute(profile, attr))
    IN  (IF fit \in {"high", "medium", "low"}
         THEN <<Reason("fit", fit)>> ELSE <<>>)
        \o [i \in 1..Len(known) |-> Reason("has", known[i])]
        \o (IF ~intent.budget.isNull /\ profile.price # NullPrice
               /\ TruthyNum(intent.budget.max) /\ profile.price <= intent.budget.max
            THEN <<Reason("budget", "")>> ELSE <<>>)
        \o (IF intent.category # Null /\ profile.category = intent.category
            THEN <<Reason("category", profile.category)>> ELSE <<>>)

\* variant: an element is put in front of the elements of equal score
RECURSIVE InsertByScoreBeforeTies(_, _)
InsertByScoreBeforeTies(x, sorted) ==
    IF sorted = <<>> THEN <<x>>
    ELSE IF Head(sorted).score > x.score
    THEN <<Head(sorted)>> \o InsertByScoreBeforeTies(x, Tail(sorted))
    ELSE <<x>> \o sorted

\* Array.prototype.sort with (a, b) => b.score - a.score: stable, descending
RECURSIVE InsertByScore(_, _)
InsertByScore(x, sorted) ==
    IF sorted = <<>> THEN <<x>>
    ELSE IF Head(sorted).score >= x.score
    THEN <<Head(sorted)>> \o InsertByScore(x, Tail(sorted))
    ELSE <<x>> \o sorted

RECURSIVE SortByScore(_)
SortByScore(scored) ==
    IF scored = <<>> THEN <<>>
    ELSE InsertByScore(scored[Len(scored)],
                       SortByScore(SubSeq(scored, 1, Len(scored) - 1)))

TOP_N == 3

\* variant: every scored product is recommended
recommendUnsliced(map, intent, profiles) ==
    LET scored == [i \in 1..Len(profiles) |->
                      [profile |-> profiles[i],
                       score |-> scoreProduct(map, intent, profiles[i])]]
        topProducts == SortByScore(scored)
    IN  [i \in 1..Len(topProducts) |->
            [product_id |-> topProducts[i].profile.product_id,
             price |-> topProducts[i].profile.price,
             confidence |-> IF topProducts[i].score >= 15 THEN "high"
                            ELSE IF topProducts[i].score >= 8 THEN "medium"
                            ELSE "low",
             proof |-> topProducts[i].profile.proof]]

\* recommend: the recommendations list
recommend(map, intent, profiles) ==
    LET scored == [i \in 1..Len(profiles) |->
                      [profile |-> profiles[i],
                       score |-> scoreProduct(map, intent, profiles[i])]]
        sorted == SortByScore(scored)
        topProducts == SubSeq(sorted, 1, Min(TOP_N, Len(sorted)))
    IN  [i \in 1..Len(topProducts) |->
            [product_id |-> topProducts[i].profile.product_id,
             price |-> topProducts[i].profile.price,
             confidence |-> IF topProducts[i].score >= 15 THEN "high"
                            ELSE IF topProducts[i].score >= 8 THEN "medium"
                            ELSE "low",
             proof |-> topProducts[i].profile.proof]]

NoComparison == [isNull |-> TRUE]

\* key_attributes is a Record<string, unknown>: a key may be missing, and
\* reading it gives undefined
AbsentNum == 0 - 2

AbsentValue(key) == IF key = "weight_grams" THEN AbsentNum ELSE Absent

IsAbsent(profile, key) == profile.key_attributes[key] = AbsentValue(key)

\* value === "unknown"
IsUnknown(profile, key) ==
    IF key = "weight_grams"
    THEN profile.key_attributes[key] = NoNum
    ELSE profile.key_attributes[key] = "unknown"

\* the attribute loop of compare: it runs over the keys product A has, and
\* tests valueA !== "unknown" && valueB !== "unknown" && valueA !== valueB
AttributeDiffers(productA, productB, key) ==
    /\ ~IsAbsent(productA, key)
    /\ ~IsUnknown(productA, key)
    /\ ~IsUnknown(productB, key)
    /\ productA.key_attributes[key] # productB.key_attributes[key]

\* compare: the two sides, the price difference, the attributes named in
\* differences (in the order of Object.entries) and best_for
compare(productA, productB, intent) ==
    LET cheaper == IF productA.price # NullPrice /\ productB.price # NullPrice
                   THEN (IF productA.price < productB.price THEN "a"
                         ELSE IF productB.price < productA.price THEN "b"
                         ELSE "none")
                   ELSE "none"
        differences == SelectSeq(AttributeOrder,
                           LAMBDA key : AttributeDiffers(productA, productB, key))
        fitA == IF intent.purpose = Null THEN "unknown"
                ELSE productA.use_case_fit[intent.purpose]
        fitB == IF intent.purpose = Null THEN "unknown"
                ELSE productB.use_case_fit[intent.purpose]
        bestForA == (IF cheaper = "a" THEN <<"Budget-conscious buyers">> ELSE <<>>)
                    \o (IF fitA = "high" /\ fitB # "high"
                        THEN <<intent.purpose>> ELSE <<>>)
        bestForB == (IF cheaper = "b" THEN <<"Budget-conscious buyers">> ELSE <<>>)
                    \o (IF fitB = "high" /\ fitA # "high"
                        THEN <<intent.purpose>> ELSE <<>>)
    IN  [isNull |-> FALSE,
         product_a |-> productA.product_id,
         product_b |-> productB.product_id,
         cheaper |-> cheaper,
         priceGap |-> IF cheaper = "a" THEN productB.price - productA.price
                      ELSE IF cheaper = "b" THEN productA.price - productB.price
                      ELSE 0,
         differences |-> differences,
         noDifferences |-> cheaper = "none" /\ differences = <<>>,
         best_for |-> [a |-> IF bestForA # <<>> THEN bestForA ELSE <<"General use">>,
                       b |-> IF bestForB # <<>> THEN bestForB ELSE <<"General use">>]]

\* ------------------------------------------------------------------------
\* fetchCatalogSubset and reason
\* ------------------------------------------------------------------------
\* What the adapters do on this call:
\*   connectThrows   - isInitialized() rejects (the pool cannot connect);
\*   uninitialized   - isInitialized() answers false;
\*   countQueryFails - the COUNT query of getProductCount() is rejected;
\*   searchQueryFails - the similarity query of searchByVector() is rejected;
\*   embeddingThrows - generateEmbedding() rejects;
\*   searchThrows    - searchByVector() rejects;
\*   rows            - searchByVector() ranks the table as `ranking`.
AdapterOutcomes ==
    {[kind |-> k, ranking |-> <<>>] :
        k \in {"connectThrows", "uninitialized", "countQueryFails",
                "embeddingThrows", "searchThrows", "searchQueryFails"}}
    \cup {[kind |-> "rows", ranking |-> r] : r \in Rankings}

NotCalled == [kind |-> "notCalled", ranking |-> <<>>]

NoProductCache == [isNull |-> TRUE]

CacheKey(intent, msgs) ==
    [purpose |-> intent.purpose, budget |-> intent.budget,
     category |-> intent.category, lastMessage |-> msgs[Len(msgs)]]

ProductCacheHit(cache, intent, msgs) ==
    /\ ~cache.isNull
    /\ cache.fresh                      \* Date.now() - timestamp < CACHE_TTL
    /\ cache.key = CacheKey(intent, msgs)

\* the SQL filter of searchByVector: price >= minPrice, price <= maxPrice
searchByVector(ranking, minPrice, maxPrice) ==
    SelectSeq(ranking, LAMBDA r :
        /\ minPrice = NoNum \/ r.price >= minPrice
        /\ maxPrice = NoNum \/ r.price <= maxPrice)

\* fetchCatalogSubset: the products it returns or the error it throws, and
\* productCache afterwards
fetchCatalogSubset(intent, msgs, cache, adapter) ==
    CASE adapter.kind = "connectThrows" ->
           [threw |-> TRUE, message |-> "connect", products |-> <<>>, cache |-> cache]
      [] adapter.kind = "uninitialized" ->
           [threw |-> FALSE, message |-> "", products |-> <<>>, cache |-> cache]
      \* getProductCount catches the error of its query and returns 0
      [] adapter.kind = "countQueryFails" ->
           [threw |-> FALSE, message |-> "", products |-> <<>>, cache |-> cache]
      [] OTHER ->
           IF ProductCacheHit(cache, intent, msgs)
           THEN [threw |-> FALSE, message |-> "", products |-> cache.products,
                 cache |-> cache]
           ELSE IF adapter.kind = "embeddingThrows"
           THEN [threw |-> TRUE, message |-> "embedding", products |-> <<>>,
                 cache |-> cache]
           ELSE IF adapter.kind = "searchThrows"
           THEN [threw |-> TRUE, message |-> "search", products |-> <<>>,
                 cache |-> cache]
           ELSE
           \* searchByVector catches the error of its query and returns []
           LET records  == IF adapter.kind = "searchQueryFails" THEN <<>>
                           ELSE searchByVector(adapter.ranking,
                                          intent.budget.min, intent.budget.max)
               filtered == IF intent.category # Null
                           THEN SelectSeq(records, LAMBDA r :
                                    r.productType = intent.category)
                           ELSE records
           IN  [threw |-> FALSE, message |-> "", products |-> filtered,
                cache |-> [isNull |-> FALSE, key |-> CacheKey(intent, msgs),
                           products |-> filtered, fresh |-> TRUE]]

\* variant: a null comparison is left out of the response
AgentResponseSparse(mode, intent, question, recommendations, comparison, errors) ==
    IF comparison = NoComparison
    THEN [returned |-> TRUE, mode |-> mode, intent |-> intent,
          clarifying_question |-> question, recommendations |-> recommendations,
          errors |-> errors]
    ELSE [returned |-> TRUE, mode |-> mode, intent |-> intent,
          clarifying_question |-> question, recommendations |-> recommendations,
          comparison |-> comparison, errors |-> errors]

AgentResponse(mode, intent, question, recommendations, comparison, errors) ==
    [returned |-> TRUE, mode |-> mode, intent |-> intent,
     clarifying_question |-> question, recommendations |-> recommendations,
     comparison |-> comparison, errors |-> errors]

\* variant: the catch block lets the exception through
ReasonCatchRethrows(message) ==
    [returned |-> FALSE, mode |-> "fail", intent |-> NullIntent,
     clarifying_question |-> NoQuestion, recommendations |-> <<>>,
     comparison |-> NoComparison, errors |-> <<>>]

\* the catch block of reason()
ReasonCatch(message) ==
    AgentResponse("fail", NullIntent, NoQuestion, <<>>, NoComparison, <<message>>)

FindProfile(profiles, id) ==
    {i \in 1..Len(profiles) : profiles[i].product_id = id}

\* steps 4 to 6 of reason(), on a non-empty product list
ReasonOverProducts(map, intent, products) ==
    LET profiles == [i \in 1..Len(products) |-> normalizeProduct(products[i])]
        req      == intent.comparison_request
        wanted   == ~req.isNull /\ Len(req.ids) >= 2
        foundA   == IF wanted THEN FindProfile(profiles, req.ids[1]) ELSE {}
        foundB   == IF wanted THEN FindProfile(profiles, req.ids[2]) ELSE {}
        errors   == IF wanted /\ (foundA = {} \/ foundB = {})
                    THEN <<"Could not find products for comparison">> ELSE <<>>
        recommendations == recommend(map, intent, profiles)
    IN  IF wanted /\ foundA # {} /\ foundB # {}
        THEN AgentResponse("compare", intent, NoQuestion, <<>>,
                 compare(profiles[CHOOSE i \in foundA : \A j \in foundA : i <= j],
                         profiles[CHOOSE i \in foundB : \A j \in foundB : i <= j],
                         intent),
                 <<>>)
        ELSE IF Len(recommendations) = 0
        THEN AgentResponse("fail", intent, NoQuestion, <<>>, NoComparison,
                 <<"No suitable recommendations found">>)
        ELSE AgentResponse("recommend", intent, NoQuestion, recommendations,
                 NoComparison, errors)

\* reason(messages): the response, productCache afterwards, and whether the
\* catalog was asked
reason(map, msgs, cache, adapter) ==
    LET intent == reasoningParseUserIntent(msgs)
        clarifyingQuestion == decideNextQuestion(map, intent)
        fetched == fetchCatalogSubset(intent, msgs, cache, adapter)
    IN  IF clarifyingQuestion # NoQuestion
        THEN [response |-> AgentResponse("clarify", intent, clarifyingQuestion,
                               <<>>, NoComparison, <<>>),
              cache |-> cache, fetched |-> FALSE, threw |-> FALSE,
              products |-> <<>>]
        ELSE IF fetched.threw
        THEN [response |-> ReasonCatch(fetched.message),
              cache |-> fetched.cache, fetched |-> TRUE, threw |-> TRUE,
              products |-> <<>>]
        ELSE IF Len(fetched.products) = 0
        THEN [response |-> AgentResponse("fail", intent, NoQuestion, <<>>,
                               NoComparison,
                               <<"No products found matching criteria">>),
              cache |-> fetched.cache, fetched |-> TRUE, threw |-> FALSE,
              products |-> <<>>]
        ELSE [response |-> ReasonOverProducts(map, intent, fetched.products),
              cache |-> fetched.cache, fetched |-> TRUE, threw |-> FALSE,
              products |-> fetched.products]

\* the adapter outcomes that can be told apart on this call
AdaptersFor(map, msgs, cache) ==
    LET intent == reasoningParseUserIntent(msgs)
    IN  IF decideNextQuestion(map, intent) # NoQuestion
        THEN {NotCalled}
        ELSE IF ProductCacheHit(cache, intent, msgs)
        THEN {a \in AdapterOutcomes :
                \/ a.kind \in {"connectThrows", "uninitialized", "countQueryFails"}
                \/ a.kind = "rows" /\ a.ranking = <<>>}
        ELSE AdapterOutcomes

\* ------------------------------------------------------------------------
\* A conversation through reason(): every response is appended to the
\* history before the next user turn
\* ------------------------------------------------------------------------
\* the assistant message made of a response: a clarify response is its
\* question text ("What will you primarily use this camera for?" holds the
\* keyword camera; the questions of the map hold no keyword of the parser)
RAssistantMessage(response) ==
    [role |-> "assistant",
     words |-> IF response.mode = "clarify"
                  /\ response.clarifying_question.kind = "purpose"
               THEN {"camera"} ELSE {},
     max |-> NoNum, min |-> NoNum, ids |-> <<>>,
     mode |-> response.mode]

UserTurns(msgs) ==
    Cardinality({i \in 1..Len(msgs) : msgs[i].role = "user"})

NoReason == [called |-> FALSE]

\* one user turn: the utterance is appended, reason() runs on the whole
\* history, its response is appended
reasonTurn ==
    /\ UserTurns(rMessages) < MaxReasonTurns
    /\ \E u \in UserUtterances :
        LET msgs == Append(rMessages, RUserMessage(u))
        IN  \E adapter \in AdaptersFor(purposeAttributeMap, msgs, productCache) :
            LET r == reason(purposeAttributeMap, msgs, productCache, adapter)
            IN  /\ productCache' = r.cache
                /\ rMessages' = Append(msgs, RAssistantMessage(r.response))
                /\ lastReason' = [called |-> TRUE,
                                  utterance |-> u,
                                  adapter |-> adapter.kind,
                                  threw |-> r.threw,
                                  products |-> r.products,
                                  response |-> r.response]
    /\ UNCHANGED <<purposeAttributeMap, lastCompare, clock, normalized,
                   retailVars, routeVars>>

\* five minutes pass: the cached search results are stale
productCacheExpires ==
    /\ ~productCache.isNull
    /\ productCache.fresh
    /\ productCache' = [productCache EXCEPT !.fresh = FALSE]
    /\ UNCHANGED <<purposeAttributeMap, rMessages, lastReason, lastCompare,
                   clock, normalized, retailVars, routeVars>>

\* the price sub-record of a profile: {value, currency, as_of} or null
PriceRecord(price, now) ==
    IF TruthyNum(price)
    THEN [isNull |-> FALSE, value |-> price, as_of |-> now]
    ELSE [isNull |-> TRUE, value |-> NoNum, as_of |-> NoNum]

\* normalizeProduct called when Date.now() is `now`: the profile with its
\* whole price sub-record (as_of is new Date().toISOString())
normalizeProductAt(record, now) ==
    [normalizeProduct(record) EXCEPT !.price = PriceRecord(record.price, now)]

P8 == [id |-> "p8", productType |-> "Camera", price |-> 60,
       text |-> {"4k"}, weight |-> 300]

\* the records normalizeProduct is applied to
NormalizeRecords == CompareRecords \cup {P7, P8}

\* normalizeProduct(record), called now
normalizeRecord ==
    /\ Cardinality(normalized) < MaxNormalizeCalls
    /\ \E record \in NormalizeRecords :
        normalized' = normalized \cup
            {[record |-> record, profile |-> normalizeProductAt(record, clock)]}
    /\ UNCHANGED <<purposeAttributeMap, rMessages, productCache, lastReason,
                   lastCompare, clock, retailVars, routeVars>>

\* a millisecond passes
tick ==
    /\ clock < MaxClock
    /\ clock' = clock + 1
    /\ UNCHANGED <<purposeAttributeMap, rMessages, productCache, lastReason,
                   lastCompare, normalized, retailVars, routeVars>>

NoCompare == [called |-> FALSE]

\* a profile without the attribute `key` (Null: every attribute is there)
WithoutAttribute(profile, key) ==
    IF key = Null THEN profile
    ELSE [profile EXCEPT !.key_attributes[key] = AbsentValue(key)]

\* compare(productA, productB, intent) applied to two profiles; compare is
\* a pure function, so a behaviour holds one call of it
compareProducts ==
    /\ ~lastCompare.called
    /\ \E recordA \in CompareRecords, recordB \in CompareRecords,
          purpose \in Purposes \cup {Null},
          missingA \in {Null} \cup {AttributeOrder[i] : i \in 1..Len(AttributeOrder)},
          missingB \in {Null} \cup {AttributeOrder[i] : i \in 1..Len(AttributeOrder)} :
        LET productA == WithoutAttribute(normalizeProduct(recordA), missingA)
            productB == WithoutAttribute(normalizeProduct(recordB), missingB)
            intent   == [NullIntent EXCEPT !.purpose = purpose]
        IN  lastCompare' = [called |-> TRUE,
                            productA |-> productA,
                            productB |-> productB,
                            purpose |-> purpose,
                            comparison |-> compare(productA, productB, intent)]
    /\ UNCHANGED <<purposeAttributeMap, rMessages, productCache, lastReason,
                   clock, normalized, retailVars, routeVars>>

ReasonStart ==
    /\ purposeAttributeMap \in PurposeMaps
    /\ rMessages = <<>>
    /\ productCache = NoProductCache
    /\ lastReason = NoReason
    /\ lastCompare = NoCompare
    /\ clock = 0
    /\ normalized = {}

ReasonStep ==
    \/ reasonTurn
    \/ productCacheExpires

\* ------------------------------------------------------------------------
\* Properties of reason() (checked under SpecReason)
\* ------------------------------------------------------------------------
ClarifyResponses(msgs) ==
    {i \in 1..Len(msgs) : msgs[i].role = "assistant" /\ msgs[i].mode = "clarify"}

\* C1: in a conversation where every response is appended to the history,
\* at most 2 responses of reason() have mode "clarify".
C1_AtMostTwoClarify ==
    Cardinality(ClarifyResponses(rMessages)) <= 2

ComparisonAsked == lastReason.called /\ Len(lastReason.utterance.ids) >= 2

CandidateIds == {lastReason.products[i].id : i \in 1..Len(lastReason.products)}

\* C4: when the user asks to compare two ids, candidates were fetched and
\* one of the ids is not among them, the response has mode "fail" and its
\* errors name the missing comparison.
C4_MissingComparisonFails ==
    (ComparisonAsked /\ Len(lastReason.products) > 0
        /\ \E k \in 1..2 : lastReason.utterance.ids[k] \notin CandidateIds)
    => /\ lastReason.response.mode = "fail"
       /\ \E i \in 1..Len(lastReason.response.errors) :
            lastReason.response.errors[i] = "Could not find products for comparison"

\* C13: when the user asks to compare two ids that are both among the
\* fetched candidates, the response has mode "compare" and its comparison
\* is the one of exactly those two products.
C13_ComparesRequestedProducts ==
    (ComparisonAsked
        /\ \A k \in 1..2 : lastReason.utterance.ids[k] \in CandidateIds)
    => /\ lastReason.response.mode = "compare"
       /\ lastReason.response.comparison.product_a = lastReason.utterance.ids[1]
       /\ lastReason.response.comparison.product_b = lastReason.utterance.ids[2]

NoProductsFound == <<"No products found matching criteria">>

\* C14: a catalog failure and an empty result are told apart: the errors
\* list is "No products found matching criteria" only when the fetch
\* succeeded with zero candidates, and a failing vector-store query or
\* initialisation check gives mode "fail" with another message.
C14_FailureDistinctFromEmpty ==
    lastReason.called
    => /\ lastReason.response.errors = NoProductsFound
            => lastReason.adapter \in {"rows", "uninitialized"}
       /\ lastReason.adapter \in {"countQueryFails", "searchQueryFails"}
            => /\ lastReason.response.mode = "fail"
               /\ lastReason.response.errors # NoProductsFound

\* C15: the errors list of a response is empty unless its mode is "fail".
C15_ErrorsOnlyOnFail ==
    lastReason.called
    => (lastReason.response.errors # <<>> => lastReason.response.mode = "fail")

\* a comparison of a product that was not fetched is answered with
\* recommendations and no error
C15_Witness ==
    /\ ComparisonAsked
    /\ \E k \in 1..2 : lastReason.utterance.ids[k] \notin CandidateIds
    /\ lastReason.response.mode = "recommend"
    /\ lastReason.response.errors = <<>>

Recommends == lastReason.called /\ lastReason.response.mode = "recommend"

C17_BudgetAskedAtMostOnce ==
    LET \* the question of the response at position i of the history: the
        \* one decideNextQuestion chose for the messages before it
        QuestionAt(i) ==
            decideNextQuestion(purposeAttributeMap,
                reasoningParseUserIntent(SubSeq(rMessages, 1, i - 1)))
        BudgetQuestionTurns ==
            {i \in 1..Len(rMessages) :
                /\ rMessages[i].role = "assistant"
                /\ rMessages[i].mode = "clarify"
                /\ QuestionAt(i).kind = "budget"}
    IN  Cardinality(BudgetQuestionTurns) <= 1

ResponseModes == {"clarify", "recommend", "compare", "fail"}

\* the messages the last call of reason() was given, and their parsed intent
LastMessages == SubSeq(rMessages, 1, Len(rMessages) - 1)

LastIntent == reasoningParseUserIntent(LastMessages)

BudgetBoundKnown(intent) ==
    ~intent.budget.isNull
    /\ (TruthyNum(intent.budget.min) \/ TruthyNum(intent.budget.max))

\* C12: when a purpose and a budget bound are derivable from the
\* conversation, reason() asks no further clarifying question, and with at
\* least two candidates from the catalog its mode is "recommend", whatever
\* the purpose map holds.
C12_RecommendsWhenPurposeAndBudget ==
    (lastReason.called /\ LastIntent.purpose # Null
        /\ BudgetBoundKnown(LastIntent))
    => /\ lastReason.response.mode # "clarify"
       /\ Len(lastReason.products) >= 2
            => lastReason.response.mode = "recommend"

\* C18: question selection order. Without a purpose the response is the
\* purpose question with options and the catalog is not queried, whatever
\* else the messages hold; with a purpose and no budget bound the question
\* asked is the budget question; a non-budget question of the purpose is
\* asked only when purpose and budget bound are both known.
C18_QuestionSelectionOrder ==
    lastReason.called
    => LET intent   == LastIntent
           response == lastReason.response
           question == response.clarifying_question
       IN  /\ intent.purpose = Null
                => /\ response.mode = "clarify"
                   /\ question = PurposeQuestion
                   /\ question.options > 0
                   /\ lastReason.adapter = "notCalled"
           /\ (intent.purpose # Null /\ ~BudgetBoundKnown(intent)
                    /\ response.mode = "clarify")
                => question.kind = "budget"
           /\ (response.mode = "clarify"
                    /\ question.kind \notin {"purpose", "budget"})
                => intent.purpose # Null /\ BudgetBoundKnown(intent)

ComparedKeys ==
    {lastCompare.comparison.differences[i] :
        i \in 1..Len(lastCompare.comparison.differences)}

SwappedComparison ==
    compare(lastCompare.productB, lastCompare.productA,
            [NullIntent EXCEPT !.purpose = lastCompare.purpose])

FetchedProfiles ==
    {normalizeProduct(lastReason.products[i]) : i \in 1..Len(lastReason.products)}

HasKnownAttribute(profile) ==
    \E i \in 1..Len(AttributeOrder) : ~IsUnknown(profile, AttributeOrder[i])

\* C22: every profile of normalizeProduct with a key attribute other than
\* "unknown" has a non-empty proof, and every recommendation of reason()
\* carries a non-empty proof.
C22_ProofNonEmpty ==
    lastReason.called
    => /\ \A profile \in FetchedProfiles :
            HasKnownAttribute(profile) => profile.proof # <<>>
       /\ \A i \in 1..Len(lastReason.response.recommendations) :
            lastReason.response.recommendations[i].proof # <<>>

\* a product without any extracted attribute is recommended with the
\* fallback proof
C22_Witness ==
    /\ Recommends
    /\ \E profile \in FetchedProfiles : ~HasKnownAttribute(profile)
    /\ \E i \in 1..Len(lastReason.response.recommendations) :
          lastReason.response.recommendations[i].proof = <<"title">>

ReasonsOf(profile) ==
    LET reasons == scoreProductReasons(purposeAttributeMap,
                                       lastReason.response.intent, profile)
    IN  {reasons[i] : i \in 1..Len(reasons)}

\* C23: every reason scoreProduct gives for a profile is backed by a fact
\* of that profile: a fit reason by a high, medium or low use_case_fit, a
\* "Has <attr>" reason by a known attribute, "Within budget" by a price at
\* most budget.max, a category reason by the category of the profile.
C23_ReasonsAreGrounded ==
    LET Grounded(why, intent, profile) ==
            CASE why.kind = "fit" ->
                    /\ intent.purpose # Null
                    /\ profile.use_case_fit[intent.purpose] \in {"high", "medium", "low"}
              [] why.kind = "has" ->
                    /\ ~IsAbsent(profile, why.detail)
                    /\ ~IsUnknown(profile, why.detail)
              [] why.kind = "budget" ->
                    /\ profile.price # NullPrice
                    /\ ~intent.budget.isNull
                    /\ profile.price <= intent.budget.max
              [] why.kind = "category" ->
                    /\ intent.category # Null
                    /\ profile.category = intent.category
              [] OTHER -> FALSE
    IN  Recommends
    => \A profile \in FetchedProfiles :
        \A why \in ReasonsOf(profile) :
            Grounded(why, lastReason.response.intent, profile)

\* a product without a price is scored under a budget bound and gets
\* reasons, "Within budget" not among them
C23_Witness ==
    /\ Recommends
    /\ TruthyNum(lastReason.response.intent.budget.max)
    /\ \E profile \in FetchedProfiles :
          /\ profile.price = NullPrice
          /\ ReasonsOf(profile) # {}

ScoreOfCandidate(i) ==
    scoreProduct(purposeAttributeMap, lastReason.response.intent,
                 normalizeProduct(lastReason.products[i]))

\* candidate i comes before candidate j in a stable descending sort
RanksBefore(i, j) ==
    \/ ScoreOfCandidate(i) > ScoreOfCandidate(j)
    \/ ScoreOfCandidate(i) = ScoreOfCandidate(j) /\ i < j

\* positions of the recommended products among the fetched candidates
RecommendedIndexes ==
    [k \in 1..Len(lastReason.response.recommendations) |->
        CHOOSE i \in 1..Len(lastReason.products) :
            lastReason.products[i].id =
                lastReason.response.recommendations[k].product_id]

\* C24: recommend returns the min(3, n) highest-scoring profiles in
\* descending score order, profiles of equal score in their candidate
\* order; no omitted profile outscores an included one.
C24_TopThreeStable ==
    Recommends
    => LET included == RecommendedIndexes
           n == Len(lastReason.products)
       IN  /\ Len(included) = Min(TOP_N, n)
           /\ \A k \in 1..(Len(included) - 1) :
                RanksBefore(included[k], included[k + 1])
           /\ \A o \in 1..n :
                (\A k \in 1..Len(included) : included[k] # o)
                => \A k \in 1..Len(included) : RanksBefore(included[k], o)

\* two candidates of equal score are both recommended and one candidate is
\* left out
C24_Witness ==
    /\ Recommends
    /\ Len(lastReason.products) > TOP_N
    /\ \E k \in 1..(Len(RecommendedIndexes) - 1) :
          ScoreOfCandidate(RecommendedIndexes[k])
            = ScoreOfCandidate(RecommendedIndexes[k + 1])

\* C25: normalizeProduct is pure: two calls on the same catalog record, at
\* any two times, return profiles identical in every field, the price
\* sub-record included.
C25_NormalizeIsPure ==
    \A x \in normalized : \A y \in normalized :
        x.record = y.record => x.profile = y.profile

\* C27: every response of reason() has the six fields, a mode among
\* clarify, recommend, compare and fail, a clarifying question exactly when
\* the mode is "clarify", a comparison exactly when it is "compare", and
\* recommendations only when it is "recommend".
C27_ResponseIsWellFormed ==
    lastReason.called
    => LET response == lastReason.response
       IN  /\ {"mode", "intent", "clarifying_question", "recommendations",
                "comparison", "errors"} \subseteq DOMAIN response
           /\ response.mode \in {"clarify", "recommend", "compare", "fail"}
           /\ (response.clarifying_question # NoQuestion)
                <=> (response.mode = "clarify")
           /\ (response.comparison # NoComparison) <=> (response.mode = "compare")
           /\ response.recommendations # <<>> => response.mode = "recommend"

\* a fail response built outside the catch block: every inapplicable field
\* is null or empty
C27_Witness ==
    /\ lastReason.called
    /\ ~lastReason.threw
    /\ lastReason.response.mode = "fail"
    /\ lastReason.response.clarifying_question = NoQuestion
    /\ lastReason.response.comparison = NoComparison
    /\ lastReason.response.recommendations = <<>>

\* the number of attribute patterns that matched: the attributes the
\* profile holds with a value
MatchedAttributes(profile) ==
    {AttributeOrder[i] : i \in 1..Len(AttributeOrder)}
        \ {a \in {AttributeOrder[i] : i \in 1..Len(AttributeOrder)} :
                IsUnknown(profile, a)}

\* C28: normalizeProduct adds a source-field name to proof only when an
\* attribute pattern matched and never twice: proof holds no duplicate, and
\* nothing is added when no attribute matched.
C28_ProofHasNoDuplicates ==
    \A x \in normalized :
        /\ \A i \in 1..Len(x.profile.proof) : \A j \in 1..Len(x.profile.proof) :
                x.profile.proof[i] = x.profile.proof[j] => i = j
        \* what was pushed: the returned list, or nothing when the list
        \* is the fallback
        /\ Len(IF MatchedAttributes(x.profile) = {} THEN <<>> ELSE x.profile.proof)
                <= Cardinality(MatchedAttributes(x.profile))

\* C29: use_case_fit is a function of key_attributes alone: two records
\* with equal extracted key_attributes get the same tier for every purpose,
\* and no purpose gets a tier other than "unknown" from information that
\* is not in key_attributes.
C29_FitFromAttributesOnly ==
    \A x \in normalized : \A y \in normalized :
        x.profile.key_attributes = y.profile.key_attributes
        => x.profile.use_case_fit = y.profile.use_case_fit

\* C6: every call of reason() returns a response, whatever the adapters do;
\* when the catalog adapter or the embedding call throws, the response has
\* mode "fail" and a non-empty errors list.
C6_ReasonIsTotal ==
    lastReason.called
    => /\ lastReason.response.returned
       /\ lastReason.response.mode \in ResponseModes
       /\ lastReason.threw
            => /\ lastReason.response.mode = "fail"
               /\ Len(lastReason.response.errors) > 0

C6_Witness ==
    /\ lastReason.called
    /\ lastReason.adapter = "embeddingThrows"
    /\ lastReason.threw
    /\ lastReason.response.returned
    /\ lastReason.response.mode = "fail"

\* ========================================================================
\* Specifications
\* ========================================================================
\* the parts of the system a specification leaves idle
RetailIdle ==
    /\ agentImpl = "current"
    /\ messages = <<>>
    /\ conversationState = EmptyState
    /\ inflight = NoResponse
    /\ lastCall = NoCall

ReasonIdle ==
    /\ purposeAttributeMap =
          [p \in Purposes |->
             [recommended_clarifying_questions |-> <<>>,
              attribute_weights |-> AttributeWeights]]
    /\ rMessages = <<>>
    /\ productCache = NoProductCache
    /\ lastReason = NoReason
    /\ lastCompare = NoCompare
    /\ clock = 0
    /\ normalized = {}

RetailInit == RetailStart /\ RouteStart /\ ReasonIdle

RetailNext == RetailStep

SpecRetail == RetailInit /\ [][RetailNext]_vars

AssistantInit == RouteStart /\ RetailIdle /\ ReasonIdle

AssistantNext == RouteStep

SpecAssistant == AssistantInit /\ [][AssistantNext]_vars

ReasonInit == ReasonStart /\ RetailIdle /\ RouteStart

ReasonNext == ReasonStep

SpecReason == ReasonInit /\ [][ReasonNext]_vars

CompareInit == ReasonIdle /\ RetailIdle /\ RouteStart

CompareNext == compareProducts

SpecCompare == CompareInit /\ [][CompareNext]_vars

NormalizeInit == ReasonIdle /\ RetailIdle /\ RouteStart

NormalizeNext == normalizeRecord \/ tick

SpecNormalize == NormalizeInit /\ [][NormalizeNext]_vars
====
